---- MODULE Spec2Model ----
(***************************************************************************)
(* TechTrack (src/app.py): a Streamlit application that keeps items, a     *)
(* usage log, reports and users in four worksheets of one spreadsheet.     *)
(* Every session is one run of the script against the shared spreadsheet;  *)
(* each spreadsheet API call (get_all_records, get_all_values, row_values, *)
(* update_cell, append_row) is one atomic step and may raise.              *)
(***************************************************************************)
EXTENDS Integers, Sequences, FiniteSets, TLC

\* ---------------------------------------------------------------- bounds
MaxOps == 2      \* button handlers run per behaviour
MaxLen == 2      \* characters of a text of the QR payload

\* ---------------------------------------------------------------- values
Technicians == {"s1", "s2"}          \* two sessions of people with a technician account
Users       == {"s3"}                \* one session of a person with a plain user account
Visitors    == {"s4"}                \* one session that has not run first-load initialization
Sessions    == Technicians \cup Users \cup Visitors

ItemIds    == {"ITM-A", "ITM-B"}     \* f"ITM-{uuid4()[:8].upper()}"
UnknownId  == "ITM-X"                \* an identifier no registration produces
ReportIds  == {"RPT-A", "RPT-B"}     \* f"RPT-{uuid4()[:8].upper()}"
LogIds     == {"L1"}                 \* str(uuid4())[:8].upper()
Times      == {"T1"}                 \* datetime.now().strftime("%Y-%m-%d %H:%M")
ItemNames  == {"", "Multimeter"}     \* the "Item Name *" text input
Titles     == {"", "Line 3 down"}    \* the "Report Title *" text input
Resolutions == {"Fixed fuse"}        \* the "Resolution Notes" text area
ReportStatuses == {"open", "in_progress", "resolved"}

\* the account the person at each session selects on the login screen
\* (demo_users of seed_users); the visitor selects none
session_user(s) ==
    CASE s = "s1" -> [user_id |-> "U001", name |-> "Ahmad Technician", role |-> "technician"]
      [] s = "s2" -> [user_id |-> "U002", name |-> "Siti Technician",  role |-> "technician"]
      [] s = "s3" -> [user_id |-> "U003", name |-> "Ali User",         role |-> "user"]
      [] OTHER    -> [user_id |-> "", name |-> "", role |-> ""]     \* user = None

\* the pages of the st.sidebar.radio of sidebar_nav, by role
nav_pages(role) ==
    IF role = "technician"
    THEN {"Dashboard", "Register Item", "Scan & Use Item", "Item Availability",
          "Manage Reports"}
    ELSE {"My Dashboard", "Submit Report", "Track My Reports"}

\* sheets_headers of init_sheet_headers
sheets_headers ==
    [Items     |-> <<"item_id", "name", "category", "location", "status",
                     "registered_by", "registered_at", "notes">>,
     Usage_Log |-> <<"log_id", "item_id", "item_name", "technician", "action",
                     "timestamp", "notes">>,
     Reports   |-> <<"report_id", "submitted_by", "title", "description", "priority",
                     "status", "assigned_to", "created_at", "updated_at", "resolution">>,
     Users     |-> <<"user_id", "name", "role", "email">>]

SheetNames == DOMAIN sheets_headers

\* the order in which init_sheet_headers goes through sheets_headers.items()
SheetOrder == <<"Items", "Usage_Log", "Reports", "Users">>

\* ---------------------------------------------------------------- helpers
Range(f) == {f[i] : i \in DOMAIN f}

\* a Python dict is an ordered sequence of <<key, value>> pairs
Keys(d)   == [i \in DOMAIN d |-> d[i][1]]
Values(d) == [i \in DOMAIN d |-> d[i][2]]

\* headers.index(col_name) + 1
ColNum(headers, col_name) == CHOOSE j \in DOMAIN headers : headers[j] = col_name

\* ws.get_all_values(): every row of the worksheet, header row included
get_all_values(ws) == ws

\* ws.row_values(1)
row_values1(ws) == IF Len(ws) = 0 THEN <<>> ELSE ws[1]

\* ws.get_all_records(): row 1 gives the keys, every later row one record
get_all_records(ws) ==
    IF Len(ws) < 2 THEN <<>>
    ELSE [i \in 1..(Len(ws) - 1) |->
            [c \in Range(ws[1]) |-> ws[i + 1][ColNum(ws[1], c)]]]

\* record.get(col): None when the record has no such key
RecGet(record, col) == IF col \in DOMAIN record THEN record[col] ELSE "None"

\* a lookup that returns the last record whose id_col equals id_val
LastMatch(records, id_col, id_val) ==
    IF \E i \in DOMAIN records : RecGet(records[i], id_col) = id_val
    THEN CHOOSE i \in DOMAIN records :
            /\ RecGet(records[i], id_col) = id_val
            /\ \A j \in (i + 1)..Len(records) : RecGet(records[j], id_col) # id_val
    ELSE 0

\* index of the first record whose id_col equals id_val, 0 when there is none
\* (the for/if of update_cell_by_id, and df[df[col] == v].iloc[0])
FirstMatch(records, id_col, id_val) ==
    IF \E i \in DOMAIN records : RecGet(records[i], id_col) = id_val
    THEN CHOOSE i \in DOMAIN records :
            /\ RecGet(records[i], id_col) = id_val
            /\ \A j \in 1..(i - 1) : RecGet(records[j], id_col) # id_val
    ELSE 0

\* ---------------------------------------------------------------- state
VARIABLES
    sheets,     \* the spreadsheet: worksheet name -> sequence of rows (row 1 = header)
    pc,         \* per session: where its current script run stands
    call,       \* per session: the button handler running, its inputs (id; for a triage
                \*   input = <<new_status, resolution, updated_at>>, for a submission
                \*   input = <<title, description>>), and what it keeps
                \*   of the DataFrame its run read (row["name"], row["status"])
    upd,        \* per session: locals of update_cell_by_id
    app,        \* per session: locals of append_row
    msgs,       \* per session: what the run has shown (st.error / st.success / exception)
    failedAt,   \* per session: the step whose API call raised, "" when none did
    wr,         \* per session: the writes its current operation has performed
    preWrite,   \* per session: stored status of the row right before its status write
    raceWith,   \* per session: sessions whose check out / return of the same item,
                \*   started from the same stored status, was still unwritten at its start
    clean,      \* per session: no other session has touched its current subject
    initialized,\* per session: st.session_state.initialized
    loop,       \* per session: position of the for loop of init_sheet_headers / seed_users
    qr,         \* the QR code at hand: the payload, the image made of it, what was decoded
    logged_in,  \* per session: st.session_state.logged_in
    user,       \* per session: st.session_state.user, the Users record of the login
    nops,       \* the number of button handlers run so far
    triaged     \* the <<report_id, status, assigned_to, resolution, updated_at>> of every triage call

vars == <<sheets, pc, call, upd, app, msgs, failedAt, wr,
          preWrite, raceWith, clean, initialized, loop, nops, triaged, qr,
          logged_in, user>>

NoCall == [kind |-> "none", id |-> "", name |-> "", current |-> "", input |-> <<>>]
NoUpd  == [sheet |-> "", id_col |-> "", id_val |-> "", update_dict |-> <<>>,
           headers |-> <<>>, row_num |-> 0]
NoApp  == [sheet |-> "", row |-> <<>>]
NoUser == [user_id |-> "", name |-> "", role |-> "", email |-> ""]   \* user = None
NoQr   == [stage |-> "none", data |-> <<>>, img |-> <<>>,
           decoded |-> [ok |-> FALSE, val |-> <<>>]]

\* steps whose API call is inside no try block of its own
ApiSteps == {"upd_read", "upd_write", "app_read", "app_hdr", "app_row"}

\* ---------------------------------------------------------------- read_sheet
\* read_sheet: the records, or an empty DataFrame when the API call raised
read_sheet(ws, ok) == IF ok THEN get_all_records(ws) ELSE <<>>

\* ---------------------------------------------------------------- worksheet writes
\* ws.update_cell(row_num, col_num, new_val)
update_cell(ws, row_num, col_num, new_val) ==
    [ws EXCEPT ![row_num] = [@ EXCEPT ![col_num] = new_val]]

\* a worksheet whose append_row writes over its last data row
append_values_over_last(ws, values) ==
    IF Len(ws) >= 2 THEN [ws EXCEPT ![Len(ws)] = values] ELSE Append(ws, values)

\* ws.append_row(values): the row goes after the last row of the worksheet
append_values(ws, values) == Append(ws, values)

\* ---------------------------------------------------------------- do_action
\* a do_action that writes the status the item already has
new_status_of_swapped(action) == IF action = "use" THEN "available" ELSE "in_use"

\* new_status = "in_use" if action == "use" else "available"
new_status_of(action) == IF action = "use" THEN "in_use" ELSE "available"

\* "CHECK OUT" if action == "use" else "RETURN"
log_action_of(action) == IF action = "use" THEN "CHECK OUT" ELSE "RETURN"

\* a do_action without its "Item is currently ..." guard on check out
do_action_guard_return_only(action, current) ==
    IF action = "return" /\ current # "in_use" THEN "InvalidTransition" ELSE ""

\* a do_action whose guards know the statuses available and in_use only
do_action_guard_two_statuses(action, current) ==
    IF action = "use" /\ current = "in_use" THEN "InvalidTransition"
    ELSE IF action = "return" /\ current = "available" THEN "InvalidTransition"
    ELSE ""

\* the two status guards of do_action: "" when the action may proceed
do_action_guard(action, current) ==
    IF action = "use" /\ current # "available" THEN "InvalidTransition"
    ELSE IF action = "return" /\ current # "in_use" THEN "InvalidTransition"
    ELSE ""

\* log_row of do_action
log_row(s, log_id, ts) ==
    << <<"log_id", log_id>>, <<"item_id", call[s].id>>, <<"item_name", call[s].name>>,
       <<"technician", session_user(s).name>>, <<"action", log_action_of(call[s].kind)>>,
       <<"timestamp", ts>>, <<"notes", "">> >>

\* new_row of page_register_item
item_row(s, item_id, name, ts) ==
    << <<"item_id", item_id>>, <<"name", name>>, <<"category", "Tools">>,
       <<"location", "Rack A">>, <<"status", "available">>,
       <<"registered_by", session_user(s).name>>, <<"registered_at", ts>>,
       <<"notes", "">> >>

\* qr_data of page_register_item, the payload encoded in the QR image
qr_data(item_id, name) ==
    << <<"item_id", item_id>>, <<"name", name>>, <<"category", "Tools">> >>

\* new_row of page_submit_report
report_row(s, rep_id, title, description, ts) ==
    << <<"report_id", rep_id>>, <<"submitted_by", session_user(s).name>>,
       <<"title", title>>, <<"description", description>>, <<"priority", "medium">>,
       <<"status", "open">>, <<"assigned_to", "">>, <<"created_at", ts>>,
       <<"updated_at", "">>, <<"resolution", "">> >>

\* an update_dict that records the technician's user_id instead of the name
triage_dict_by_id(s, new_status, resolution, ts) ==
    << <<"status", new_status>>, <<"assigned_to", session_user(s).user_id>>,
       <<"resolution", resolution>>, <<"updated_at", ts>> >>

\* the update_dict of page_manage_reports
triage_dict(s, new_status, resolution, ts) ==
    << <<"status", new_status>>, <<"assigned_to", session_user(s).name>>,
       <<"resolution", resolution>>, <<"updated_at", ts>> >>

\* open_r = reports[reports["status"].isin(["open","in_progress"])]
open_r(df) == SelectSeq(df, LAMBDA r : r.status \in {"open", "in_progress"})

\* ---------------------------------------------------------------- QR codec
\* A text is a sequence of characters. The characters a payload text is made of:
\* a letter, the quote, the backslash and a non-ASCII character (U+00E9)
Chars == {"a", "\"", "\\", "U+00E9"}
Texts == UNION {[1..n -> Chars] : n \in 0..MaxLen}

\* the keys of qr_data
KeyItemId   == <<"i", "t", "e", "m", "_", "i", "d">>
KeyName     == <<"n", "a", "m", "e">>
KeyCategory == <<"c", "a", "t", "e", "g", "o", "r", "y">>

\* two options of the "Category" selectbox
Categories == {<<"T", "o", "o", "l", "s">>, <<"O", "t", "h", "e", "r">>}

\* qr_data = {"item_id": item_id, "name": name, "category": category}
Payloads ==
    {<< <<KeyItemId, i>>, <<KeyName, n>>, <<KeyCategory, c>> >> :
        i \in Texts, n \in Texts, c \in Categories}

\* a json.dumps that copies every character as it is
escape_char_plain(c) == <<c>>

\* json.dumps (ensure_ascii=True) of one character of a string
escape_char(c) ==
    CASE c = "\"" -> <<"\\", "\"">>
      [] c = "\\" -> <<"\\", "\\">>
      [] c = "U+00E9" -> <<"\\", "u", "0", "0", "e", "9">>
      [] OTHER -> <<c>>

RECURSIVE escape(_)
escape(s) == IF s = <<>> THEN <<>> ELSE escape_char(Head(s)) \o escape(Tail(s))

\* json.dumps of a string
dumps_str(s) == <<"\"">> \o escape(s) \o <<"\"">>

\* json.dumps of the items of a dict, with the default separators ", " and ": "
RECURSIVE dumps_items(_)
dumps_items(d) ==
    IF d = <<>> THEN <<>>
    ELSE dumps_str(d[1][1]) \o <<":", " ">> \o dumps_str(d[1][2])
         \o (IF Len(d) > 1 THEN <<",", " ">> ELSE <<>>) \o dumps_items(Tail(d))

\* json.dumps(data)
json_dumps(d) == <<"{">> \o dumps_items(d) \o <<"}">>

\* the result of a parse that raised
ParseError == [ok |-> FALSE, val |-> <<>>, next |-> 0]

\* json.loads: the characters of a string from position j (after the opening
\* quote) up to the closing quote, escapes resolved
RECURSIVE scanstring(_, _, _)
scanstring(text, j, acc) ==
    IF j > Len(text) THEN ParseError
    ELSE IF text[j] = "\"" THEN [ok |-> TRUE, val |-> acc, next |-> j + 1]
    ELSE IF text[j] # "\\" THEN scanstring(text, j + 1, Append(acc, text[j]))
    ELSE IF j + 1 > Len(text) THEN ParseError
    ELSE IF text[j + 1] \in {"\"", "\\"}
         THEN scanstring(text, j + 2, Append(acc, text[j + 1]))
    ELSE IF /\ text[j + 1] = "u"
            /\ j + 5 <= Len(text)
            /\ SubSeq(text, j + 2, j + 5) = <<"0", "0", "e", "9">>
         THEN scanstring(text, j + 6, Append(acc, "U+00E9"))
    ELSE ParseError

\* json.loads: the first position from j on that holds no blank
RECURSIVE skip_ws(_, _)
skip_ws(text, j) ==
    IF j <= Len(text) /\ text[j] = " " THEN skip_ws(text, j + 1) ELSE j

\* json.loads: the members "key": "value" of an object from position j on, up to
\* the closing brace
RECURSIVE parse_members(_, _, _)
parse_members(text, j, acc) ==
    IF j > Len(text) \/ text[j] # "\"" THEN ParseError
    ELSE LET k == scanstring(text, j + 1, <<>>)
             c == skip_ws(text, k.next)
         IN  IF ~k.ok \/ c > Len(text) \/ text[c] # ":" THEN ParseError
             ELSE LET v0 == skip_ws(text, c + 1)
                  IN  IF v0 > Len(text) \/ text[v0] # "\"" THEN ParseError
                      ELSE LET v == scanstring(text, v0 + 1, <<>>)
                               e == skip_ws(text, v.next)
                               acc2 == Append(acc, <<k.val, v.val>>)
                           IN  IF ~v.ok \/ e > Len(text) THEN ParseError
                               ELSE IF text[e] = "}"
                                    THEN [ok |-> TRUE, val |-> acc2, next |-> e + 1]
                               ELSE IF text[e] = ","
                                    THEN parse_members(text, skip_ws(text, e + 1), acc2)
                               ELSE ParseError

\* json.loads(text) in decode_qr_from_upload; an exception is caught and the
\* function returns None (ok = FALSE)
json_loads(text) ==
    IF text = <<>> \/ text[1] # "{" THEN [ok |-> FALSE, val |-> <<>>]
    ELSE LET r == parse_members(text, skip_ws(text, 2), <<>>)
         IN  IF r.ok /\ r.next = Len(text) + 1
             THEN [ok |-> TRUE, val |-> r.val]
             ELSE [ok |-> FALSE, val |-> <<>>]

\* ---------------------------------------------------------------- initial state
\* After first-load initialization: init_sheet_headers has written the header of a
\* worksheet unless its API call raised (the exception is caught, the worksheet is
\* left empty and the session goes on); seed_users has filled Users. unwritten is
\* the set of the sets of worksheets that may have been left empty.
\* demo_users of seed_users
demo_users ==
    << << <<"user_id", "U001">>, <<"name", "Ahmad Technician">>, <<"role", "technician">>,
          <<"email", "ahmad@tech.com">> >>,
       << <<"user_id", "U002">>, <<"name", "Siti Technician">>, <<"role", "technician">>,
          <<"email", "siti@tech.com">> >>,
       << <<"user_id", "U003">>, <<"name", "Ali User">>, <<"role", "user">>,
          <<"email", "ali@user.com">> >>,
       << <<"user_id", "U004">>, <<"name", "Nurul User">>, <<"role", "user">>,
          <<"email", "nurul@user.com">> >> >>

\* rows a worksheet holds below its header when the behaviour starts
InitRows(n, registered, submitted) ==
    IF n = "Users" THEN [j \in DOMAIN demo_users |-> Values(demo_users[j])]
    ELSE IF n = "Items" THEN registered
    ELSE IF n = "Reports" THEN submitted
    ELSE <<>>

\* no session has a script run under way
InitRuns ==
    /\ pc       = [s \in Sessions |-> "idle"]
    /\ call     = [s \in Sessions |-> NoCall]
    /\ upd      = [s \in Sessions |-> NoUpd]
    /\ app      = [s \in Sessions |-> NoApp]
    /\ msgs     = [s \in Sessions |-> {}]
    /\ failedAt = [s \in Sessions |-> ""]
    /\ wr       = [s \in Sessions |-> {}]
    /\ preWrite = [s \in Sessions |-> ""]
    /\ raceWith = [s \in Sessions |-> {}]
    /\ clean    = [s \in Sessions |-> TRUE]
    /\ initialized = [s \in Sessions |-> s \notin Visitors]
    /\ loop     = [s \in Sessions |-> 0]
    /\ nops     = 0
    /\ triaged  = {}

\* user_row = users[users["name"] == selected].iloc[0]; user_row.to_dict()
login_user(users, selected) == users[FirstMatch(users, "name", selected)]

\* the sessions of L have logged in with their accounts, the others have not
InitLogins(L) ==
    /\ logged_in = [s \in Sessions |-> s \in L]
    /\ user = [s \in Sessions |->
                 IF s \in L
                 THEN login_user(get_all_records(sheets["Users"]), session_user(s).name)
                 ELSE NoUser]

\* every session but the visitor's is logged in and has no script run under way
InitSessions == InitRuns /\ InitLogins(Sessions \ Visitors)

\* the spreadsheet: the worksheets of one set of unwritten have no header yet
InitSheets(unwritten, registered, submitted) ==
    \E missing \in unwritten :
         sheets = [n \in SheetNames |->
                     IF n \in missing THEN <<>>
                     ELSE <<sheets_headers[n]>> \o InitRows(n, registered, submitted)]

InitStore(unwritten, registered, submitted) ==
    /\ InitSheets(unwritten, registered, submitted)
    /\ InitSessions

\* no QR code is at hand
InitWith(unwritten, registered, submitted) ==
    InitStore(unwritten, registered, submitted) /\ qr = NoQr

\* two items registered earlier by page_register_item
Registered ==
    << Values(item_row("s1", "ITM-A", "Multimeter", "T1")),
       Values(item_row("s2", "ITM-B", "Multimeter", "T1")) >>

\* a report submitted earlier by page_submit_report
Submitted ==
    << Values(report_row("s3", "RPT-A", "Line 3 down", "Line 3 down", "T1")) >>

\* check out and return over registered items
Init == InitWith(SUBSET {"Items", "Usage_Log"}, Registered, <<>>)

\* registration, check out and return from an empty Items worksheet
InitRegister == InitWith(SUBSET {"Items", "Usage_Log"}, <<>>, <<>>)

\* submission and triage, with or without an earlier report
InitReports ==
    \/ InitWith(SUBSET {"Reports"}, <<>>, <<>>)
    \/ InitWith({{}}, <<>>, Submitted)

\* every operation, first-load initialization included: one item is registered
\* and Usage_Log is still without its header
InitAll == InitWith({{"Usage_Log"}}, <<Registered[1]>>, <<>>)

\* ---------------------------------------------------------------- steps
\* a main that dispatches to a page whatever the role of the user
page_shown_any_role(s, page) == logged_in[s]

\* main: the run of session s gets to the page function of page, that is, the
\* session is logged in and sidebar_nav offers the page to the role of its user
page_shown(s, page) == logged_in[s] /\ page \in nav_pages(user[s].role)

\* sessions other than s whose subject is touched when s starts acting on (kinds, id)
Disturbed(s, kinds, id) ==
    {t \in Sessions \ {s} : call[t].kind \in kinds /\ call[t].id = id}

\* no other session is in the middle of an operation on (kinds, id)
NoneActing(s, kinds, id) ==
    \A t \in Sessions \ {s} :
        ~(pc[t] \in ApiSteps /\ call[t].kind \in kinds /\ call[t].id = id)

\* page_register_item, the "Register & Generate QR" button
Register(s, name, item_id, ts) ==
    /\ pc[s] = "idle"
    /\ page_shown(s, "Register Item")
    /\ initialized[s]
    /\ nops < MaxOps
    /\ nops' = nops + 1
    /\ call' = [call EXCEPT ![s] = [kind |-> "register", id |-> item_id, name |-> name, current |-> "",
                                     input |-> <<>>]]
    /\ IF name = ""
       THEN /\ msgs' = [msgs EXCEPT ![s] = {"ValidationError"}]
            /\ pc'   = [pc EXCEPT ![s] = "done"]
            /\ app'  = app
       ELSE /\ msgs' = [msgs EXCEPT ![s] = {}]
            /\ pc'   = [pc EXCEPT ![s] = "app_read"]
            /\ app'  = [app EXCEPT ![s] = [sheet |-> "Items",
                                           row |-> item_row(s, item_id, name, ts)]]
    /\ clean' = [clean EXCEPT ![s] = TRUE]
    /\ UNCHANGED <<sheets, upd, failedAt, wr, preWrite, raceWith, initialized, loop,
                   triaged>>
    /\ UNCHANGED <<qr, logged_in, user>>

\* page_scan_use, the "Check Out" / "Return" buttons: the run reads Items and
\* calls do_action, which stops at its guards or goes on to update_cell_by_id
ScanUse(s, item_id, action, ok) ==
    /\ pc[s] = "idle"
    /\ page_shown(s, "Scan & Use Item")
    /\ initialized[s]
    /\ nops < MaxOps
    /\ nops' = nops + 1
    /\ LET df      == read_sheet(sheets["Items"], ok)
           i       == FirstMatch(df, "item_id", item_id)
           current == IF i = 0 THEN "" ELSE df[i]["status"]
           stop    == IF i = 0 THEN "NotFound" ELSE do_action_guard(action, current)
           shown   == IF ok THEN {} ELSE {"ReadError"}
       IN  /\ call'  = [call EXCEPT ![s] =
                          [kind |-> action, id |-> item_id,
                           name |-> IF i = 0 THEN "" ELSE df[i]["name"],
                           current |-> current, input |-> <<>>]]
           /\ IF stop # ""
              THEN /\ msgs' = [msgs EXCEPT ![s] = shown \cup {stop}]
                   /\ pc'   = [pc EXCEPT ![s] = "done"]
                   /\ upd'  = upd
              ELSE /\ msgs' = [msgs EXCEPT ![s] = shown]
                   /\ pc'   = [pc EXCEPT ![s] = "upd_read"]
                   /\ upd'  = [upd EXCEPT ![s] =
                                 [sheet |-> "Items", id_col |-> "item_id", id_val |-> item_id,
                                  update_dict |-> << <<"status", new_status_of(action)>> >>,
                                  headers |-> <<>>, row_num |-> 0]]
           /\ raceWith' = [raceWith EXCEPT ![s] =
                             IF stop = ""
                             THEN {t \in Sessions \ {s} :
                                      /\ pc[t] \in {"upd_read", "upd_write"}
                                      /\ call[t].kind = action
                                      /\ call[t].id = item_id}
                             ELSE {}]
           /\ clean' = [t \in Sessions |->
                          IF t = s THEN ok /\ NoneActing(s, {"use", "return"}, item_id)
                          ELSE IF stop = "" /\ t \in Disturbed(s, {"use", "return"}, item_id)
                               THEN FALSE ELSE clean[t]]
    /\ UNCHANGED <<sheets, app, failedAt, wr, preWrite, initialized, loop, triaged>>
    /\ UNCHANGED <<qr, logged_in, user>>

\* page_submit_report, the "Submit Report" button
Submit(s, title, description, rep_id, ts) ==
    /\ pc[s] = "idle"
    /\ page_shown(s, "Submit Report")
    /\ initialized[s]
    /\ nops < MaxOps
    /\ nops' = nops + 1
    /\ call' = [call EXCEPT ![s] = [kind |-> "submit", id |-> rep_id, name |-> title, current |-> "",
                                     input |-> <<title, description>>]]
    /\ IF title = "" \/ description = ""
       THEN /\ msgs' = [msgs EXCEPT ![s] = {"ValidationError"}]
            /\ pc'   = [pc EXCEPT ![s] = "done"]
            /\ app'  = app
       ELSE /\ msgs' = [msgs EXCEPT ![s] = {}]
            /\ pc'   = [pc EXCEPT ![s] = "app_read"]
            /\ app'  = [app EXCEPT ![s] = [sheet |-> "Reports",
                                           row |-> report_row(s, rep_id, title, description, ts)]]
    /\ clean' = [clean EXCEPT ![s] = TRUE]
    /\ UNCHANGED <<sheets, upd, failedAt, wr, preWrite, raceWith, initialized, loop,
                   triaged>>
    /\ UNCHANGED <<qr, logged_in, user>>

\* page_manage_reports, the "Update Report" button: the run reads Reports, offers
\* the open and in_progress reports, and updates the selected one
Triage(s, sel_id, new_status, resolution, ts, ok) ==
    /\ pc[s] = "idle"
    /\ page_shown(s, "Manage Reports")
    /\ initialized[s]
    /\ nops < MaxOps
    /\ nops' = nops + 1
    /\ LET df   == read_sheet(sheets["Reports"], ok)
           opts == {r["report_id"] : r \in Range(open_r(df))}
           stop == IF df = <<>> THEN "NoReports"
                   ELSE IF opts = {} THEN "AllResolved" ELSE ""
       IN  /\ stop = "" => sel_id \in opts
           /\ stop # "" => (sel_id = (CHOOSE x \in ReportIds : TRUE)) /\ new_status = "open"
           /\ call' = [call EXCEPT ![s] =
                         [kind |-> "triage", name |-> "", current |-> "",
                          id |-> IF stop = "" THEN sel_id ELSE "",
                          input |-> IF stop = "" THEN <<new_status, resolution, ts>>
                                    ELSE <<>>]]
           /\ IF stop # ""
              THEN /\ msgs' = [msgs EXCEPT ![s] =
                                 (IF ok THEN {} ELSE {"ReadError"}) \cup {stop}]
                   /\ pc'   = [pc EXCEPT ![s] = "done"]
                   /\ UNCHANGED <<upd, triaged>>
              ELSE /\ msgs' = [msgs EXCEPT ![s] = {}]
                   /\ pc'   = [pc EXCEPT ![s] = "upd_read"]
                   /\ upd'  = [upd EXCEPT ![s] =
                                 [sheet |-> "Reports", id_col |-> "report_id", id_val |-> sel_id,
                                  update_dict |-> triage_dict(s, new_status, resolution, ts),
                                  headers |-> <<>>, row_num |-> 0]]
                   /\ triaged' = triaged \cup
                         {<<sel_id, new_status, session_user(s).name, resolution, ts>>}
           /\ clean' = [t \in Sessions |->
                          IF t = s THEN ok /\ NoneActing(s, {"triage"}, sel_id)
                          ELSE IF stop = "" /\ t \in Disturbed(s, {"triage"}, sel_id)
                               THEN FALSE ELSE clean[t]]
    /\ UNCHANGED <<sheets, app, failedAt, wr, preWrite, raceWith, initialized, loop>>
    /\ UNCHANGED <<qr, logged_in, user>>

\* what follows update_cell_by_id in its caller: do_action builds log_row and
\* calls append_row("Usage_Log"); page_manage_reports shows st.success
AfterUpdate(s, shown, log_id, ts) ==
    /\ upd' = [upd EXCEPT ![s] = NoUpd]
    /\ IF call[s].kind \in {"use", "return"}
       THEN /\ msgs' = [msgs EXCEPT ![s] = shown]
            /\ pc'   = [pc EXCEPT ![s] = "app_read"]
            /\ app'  = [app EXCEPT ![s] = [sheet |-> "Usage_Log", row |-> log_row(s, log_id, ts)]]
       ELSE /\ msgs' = [msgs EXCEPT ![s] = shown \cup {"success"}]
            /\ pc'   = [pc EXCEPT ![s] = "done"]
            /\ app'  = app

\* update_cell_by_id: records = ws.get_all_records(); headers = ws.row_values(1);
\* the loop finds the first record whose id matches, or st.error and return
UpdRead(s, log_id, ts) ==
    /\ pc[s] = "upd_read"
    /\ LET ws      == sheets[upd[s].sheet]
           records == get_all_records(ws)
           headers == row_values1(ws)
           i       == FirstMatch(records, upd[s].id_col, upd[s].id_val)
           todo    == SelectSeq(upd[s].update_dict, LAMBDA kv : kv[1] \in Range(headers))
       IN  IF i = 0
           THEN AfterUpdate(s, msgs[s] \cup {"NotFound"}, log_id, ts)
           ELSE IF todo = <<>>
                THEN AfterUpdate(s, msgs[s], log_id, ts)
                ELSE /\ upd' = [upd EXCEPT ![s] = [@ EXCEPT !.row_num = i + 1,
                                                           !.headers = headers,
                                                           !.update_dict = todo]]
                     /\ pc' = [pc EXCEPT ![s] = "upd_write"]
                     /\ UNCHANGED <<msgs, app>>
    /\ UNCHANGED <<sheets, call, failedAt, wr, preWrite, raceWith,
                   clean, initialized, loop, nops, triaged>>
    /\ UNCHANGED <<qr, logged_in, user>>

\* update_cell_by_id: one ws.update_cell(row_num, col_num, new_val) of the inner loop
UpdWrite(s, log_id, ts) ==
    /\ pc[s] = "upd_write"
    /\ LET u       == upd[s]
           kv      == Head(u.update_dict)
           col_num == ColNum(u.headers, kv[1])
           rest    == Tail(u.update_dict)
       IN  /\ sheets' = [sheets EXCEPT ![u.sheet] = update_cell(@, u.row_num, col_num, kv[2])]
           /\ wr' = [wr EXCEPT ![s] = @ \cup {<<"cell", u.sheet, u.row_num, col_num>>}]
           /\ preWrite' = [preWrite EXCEPT ![s] =
                             IF kv[1] = "status" THEN sheets[u.sheet][u.row_num][col_num] ELSE @]
           /\ IF rest = <<>>
              THEN AfterUpdate(s, msgs[s], log_id, ts)
              ELSE /\ upd' = [upd EXCEPT ![s] = [@ EXCEPT !.update_dict = rest]]
                   /\ UNCHANGED <<pc, msgs, app>>
    /\ UNCHANGED <<call, failedAt, raceWith, clean, initialized, loop, nops, triaged>>
    /\ UNCHANGED <<qr, logged_in, user>>

\* append_row: if not ws.get_all_values()
AppRead(s) ==
    /\ pc[s] = "app_read"
    /\ pc' = [pc EXCEPT ![s] = IF get_all_values(sheets[app[s].sheet]) = <<>>
                               THEN "app_hdr" ELSE "app_row"]
    /\ UNCHANGED <<sheets, call, upd, app, msgs, failedAt, wr,
                   preWrite, raceWith, clean, initialized, loop, nops, triaged>>
    /\ UNCHANGED <<qr, logged_in, user>>

\* append_row: ws.append_row(list(row.keys()))
AppHdr(s) ==
    /\ pc[s] = "app_hdr"
    /\ sheets' = [sheets EXCEPT ![app[s].sheet] = append_values(@, Keys(app[s].row))]
    /\ wr' = [wr EXCEPT ![s] = @ \cup {<<"row", app[s].sheet, Len(sheets[app[s].sheet]) + 1, 0>>}]
    /\ pc' = [pc EXCEPT ![s] = "app_row"]
    /\ UNCHANGED <<call, upd, app, msgs, failedAt, preWrite,
                   raceWith, clean, initialized, loop, nops, triaged>>
    /\ UNCHANGED <<qr, logged_in, user>>

\* append_row: ws.append_row(list(row.values())); then the caller goes on:
\* seed_users to its next user (and first-load initialization to
\* initialized = True after the last), every page to its st.success
AppRow(s) ==
    /\ pc[s] = "app_row"
    /\ sheets' = [sheets EXCEPT ![app[s].sheet] = append_values(@, Values(app[s].row))]
    /\ wr' = [wr EXCEPT ![s] = @ \cup {<<"row", app[s].sheet, Len(sheets[app[s].sheet]) + 1, 0>>}]
    /\ IF call[s].kind = "init"
       THEN IF loop[s] < Len(demo_users)
            THEN /\ loop' = [loop EXCEPT ![s] = @ + 1]
                 /\ app' = [app EXCEPT ![s] = [sheet |-> "Users", row |-> demo_users[loop[s] + 1]]]
                 /\ pc' = [pc EXCEPT ![s] = "app_read"]
                 /\ UNCHANGED <<msgs, initialized>>
            ELSE /\ initialized' = [initialized EXCEPT ![s] = TRUE]
                 /\ loop' = [loop EXCEPT ![s] = 0]
                 /\ app' = [app EXCEPT ![s] = NoApp]
                 /\ pc' = [pc EXCEPT ![s] = "done"]
                 /\ msgs' = msgs
       ELSE /\ msgs' = [msgs EXCEPT ![s] = @ \cup {"success"}]
            /\ pc' = [pc EXCEPT ![s] = "done"]
            /\ app' = [app EXCEPT ![s] = NoApp]
            /\ UNCHANGED <<initialized, loop>>
    /\ UNCHANGED <<call, upd, failedAt, preWrite, raceWith, clean, nops, triaged>>
    /\ UNCHANGED <<qr, logged_in, user>>

\* an API call of update_cell_by_id or append_row raises. In a page nothing
\* catches it and the run ends with the exception; in first-load initialization
\* the except of the script shows "Connection failed" and st.stop() ends the run
Fail(s) ==
    /\ pc[s] \in ApiSteps
    /\ failedAt' = [failedAt EXCEPT ![s] = pc[s]]
    /\ msgs' = [msgs EXCEPT ![s] = @ \cup {IF call[s].kind = "init" THEN "ConnectionFailed"
                                            ELSE "TransportError"}]
    /\ pc' = [pc EXCEPT ![s] = "done"]
    /\ clean' = [clean EXCEPT ![s] = FALSE]
    /\ upd' = [upd EXCEPT ![s] = NoUpd]
    /\ app' = [app EXCEPT ![s] = NoApp]
    /\ loop' = [loop EXCEPT ![s] = 0]
    /\ UNCHANGED <<sheets, call, wr, preWrite, raceWith, initialized, nops, triaged>>
    /\ UNCHANGED <<qr, logged_in, user>>

\* ---------------------------------------------------------------- first load
\* the script's "if not st.session_state.initialized": init_sheet_headers()
FirstLoad(s) ==
    /\ pc[s] = "idle"
    /\ ~initialized[s]
    /\ nops < MaxOps
    /\ nops' = nops + 1
    /\ call' = [call EXCEPT ![s] = [kind |-> "init", id |-> "", name |-> "", current |-> "",
                                     input |-> <<>>]]
    /\ msgs' = [msgs EXCEPT ![s] = {}]
    /\ loop' = [loop EXCEPT ![s] = 1]
    /\ pc' = [pc EXCEPT ![s] = "ih_read"]
    /\ clean' = [clean EXCEPT ![s] = TRUE]
    /\ UNCHANGED <<sheets, upd, app, failedAt, wr, preWrite, raceWith, initialized, triaged>>
    /\ UNCHANGED <<qr, logged_in, user>>

\* init_sheet_headers moves to its next worksheet, and after the last one
\* returns to the script, which calls seed_users
NextSheet(s) ==
    IF loop[s] < Len(SheetOrder)
    THEN /\ loop' = [loop EXCEPT ![s] = @ + 1]
         /\ pc' = [pc EXCEPT ![s] = "ih_read"]
    ELSE /\ loop' = [loop EXCEPT ![s] = 0]
         /\ pc' = [pc EXCEPT ![s] = "su_read"]

\* init_sheet_headers: ws = sp.worksheet(sheet_name); if not ws.get_all_values();
\* an exception is caught with st.warning and the loop goes on
IhRead(s, ok) ==
    /\ pc[s] = "ih_read"
    /\ IF ok /\ get_all_values(sheets[SheetOrder[loop[s]]]) = <<>>
       THEN /\ pc' = [pc EXCEPT ![s] = "ih_app"]
            /\ UNCHANGED <<loop, msgs>>
       ELSE /\ NextSheet(s)
            /\ msgs' = [msgs EXCEPT ![s] = IF ok THEN @ ELSE @ \cup {"Warning"}]
    /\ UNCHANGED <<sheets, call, upd, app, failedAt, wr, preWrite, raceWith, clean,
                   initialized, nops, triaged>>
    /\ UNCHANGED <<qr, logged_in, user>>

\* init_sheet_headers: ws.append_row(headers)
IhApp(s, ok) ==
    /\ pc[s] = "ih_app"
    /\ LET n == SheetOrder[loop[s]]
       IN  IF ok
           THEN /\ sheets' = [sheets EXCEPT ![n] = append_values(@, sheets_headers[n])]
                /\ wr' = [wr EXCEPT ![s] = @ \cup {<<"row", n, Len(sheets[n]) + 1, 0>>}]
                /\ msgs' = msgs
           ELSE /\ msgs' = [msgs EXCEPT ![s] = @ \cup {"Warning"}]
                /\ UNCHANGED <<sheets, wr>>
    /\ NextSheet(s)
    /\ UNCHANGED <<call, upd, app, failedAt, preWrite, raceWith, clean, initialized,
                   nops, triaged>>
    /\ UNCHANGED <<qr, logged_in, user>>

\* seed_users: df = read_sheet("Users"); if df.empty the demo users are appended
SuRead(s, ok) ==
    /\ pc[s] = "su_read"
    /\ IF read_sheet(sheets["Users"], ok) = <<>>
       THEN /\ app' = [app EXCEPT ![s] = [sheet |-> "Users", row |-> demo_users[1]]]
            /\ loop' = [loop EXCEPT ![s] = 1]
            /\ pc' = [pc EXCEPT ![s] = "app_read"]
            /\ initialized' = initialized
       ELSE /\ initialized' = [initialized EXCEPT ![s] = TRUE]
            /\ pc' = [pc EXCEPT ![s] = "done"]
            /\ UNCHANGED <<app, loop>>
    /\ msgs' = [msgs EXCEPT ![s] = IF ok THEN @ ELSE @ \cup {"ReadError"}]
    /\ UNCHANGED <<sheets, call, upd, failedAt, wr, preWrite, raceWith, clean, nops, triaged>>
    /\ UNCHANGED <<qr, logged_in, user>>

\* first-load initialization
InitSteps(s) ==
    \/ FirstLoad(s)
    \/ \E ok \in BOOLEAN : IhRead(s, ok)
    \/ \E ok \in BOOLEAN : IhApp(s, ok)
    \/ \E ok \in BOOLEAN : SuRead(s, ok)

\* the run is over; the session's next interaction starts a new run
Finish(s) ==
    /\ pc[s] = "done"
    /\ pc'       = [pc EXCEPT ![s] = "idle"]
    /\ call'     = [call EXCEPT ![s] = NoCall]
    /\ msgs'     = [msgs EXCEPT ![s] = {}]
    /\ failedAt' = [failedAt EXCEPT ![s] = ""]
    /\ wr'       = [wr EXCEPT ![s] = {}]
    /\ preWrite' = [preWrite EXCEPT ![s] = ""]
    /\ raceWith' = [t \in Sessions |-> IF t = s THEN {} ELSE raceWith[t] \ {s}]
    /\ clean'    = [clean EXCEPT ![s] = TRUE]
    /\ UNCHANGED <<sheets, upd, app, initialized, loop, nops, triaged>>
    /\ UNCHANGED <<qr, logged_in, user>>

\* ---------------------------------------------------------------- specifications
Step(s) ==
    \/ \E log_id \in LogIds, ts \in Times : UpdRead(s, log_id, ts)
    \/ \E log_id \in LogIds, ts \in Times : UpdWrite(s, log_id, ts)
    \/ AppRead(s)
    \/ AppHdr(s)
    \/ AppRow(s)
    \/ Fail(s)
    \/ Finish(s)

\* the item lifecycle: registration, check out and return
ItemOps(s) ==
    \/ \E name \in ItemNames, item_id \in ItemIds, ts \in Times : Register(s, name, item_id, ts)
    \/ \E item_id \in ItemIds \cup {UnknownId}, action \in {"use", "return"}, ok \in BOOLEAN :
          ScanUse(s, item_id, action, ok)

\* the report lifecycle: submission and triage
ReportOps(s) ==
    \/ \E title \in Titles, description \in Titles, rep_id \in ReportIds, ts \in Times :
          Submit(s, title, description, rep_id, ts)
    \/ \E sel_id \in ReportIds, new_status \in ReportStatuses, resolution \in Resolutions,
          ts \in Times, ok \in BOOLEAN :
          Triage(s, sel_id, new_status, resolution, ts, ok)

UseOps(s) ==
    \E item_id \in ItemIds \cup {UnknownId}, action \in {"use", "return"}, ok \in BOOLEAN :
          ScanUse(s, item_id, action, ok)

Next == \E s \in Sessions : UseOps(s) \/ Step(s)

Spec == Init /\ [][Next]_vars

NextRegister == \E s \in Sessions : ItemOps(s) \/ Step(s)

SpecRegister == InitRegister /\ [][NextRegister]_vars

NextReports == \E s \in Sessions : ReportOps(s) \/ Step(s)

SpecReports == InitReports /\ [][NextReports]_vars

NextAll == \E s \in Sessions : InitSteps(s) \/ ItemOps(s) \/ ReportOps(s) \/ Step(s)

SpecAll == InitAll /\ [][NextAll]_vars

\* The spreadsheet opened by get_spreadsheet is a shared document: someone who
\* edits it outside the application deletes the last data row of a worksheet
\* (a deletion between the cell writes of one update_cell_by_id is left out)
RowDeleted(n) ==
    /\ nops < MaxOps
    /\ nops' = nops + 1
    /\ Len(sheets[n]) >= 2
    /\ \A s \in Sessions : ~(pc[s] = "upd_write" /\ upd[s].sheet = n)
    /\ sheets' = [sheets EXCEPT ![n] = SubSeq(@, 1, Len(@) - 1)]
    /\ UNCHANGED <<pc, call, upd, app, msgs, failedAt, wr, preWrite, raceWith, clean,
                   initialized, loop, triaged>>
    /\ UNCHANGED <<qr, logged_in, user>>

\* keyed updates on a spreadsheet that is also edited outside the application
InitShared == InitWith({{"Usage_Log"}}, <<Registered[1]>>, Submitted)

TriageOps(s) ==
    \E sel_id \in ReportIds, new_status \in ReportStatuses, resolution \in Resolutions,
       ts \in Times, ok \in BOOLEAN :
          Triage(s, sel_id, new_status, resolution, ts, ok)

NextShared ==
    \/ \E s \in Sessions : UseOps(s) \/ TriageOps(s) \/ Step(s)
    \/ \E n \in {"Items", "Reports"} : RowDeleted(n)

SpecShared == InitShared /\ [][NextShared]_vars

\* generate_qr: the QR image carries json.dumps(data)
GenerateQr ==
    /\ qr.stage = "data"
    /\ qr' = [qr EXCEPT !.stage = "img", !.img = json_dumps(qr.data)]
    /\ UNCHANGED <<sheets, pc, call, upd, app, msgs, failedAt, wr, preWrite, raceWith,
                   clean, initialized, loop, nops, triaged, logged_in, user>>

\* decode_qr_from_upload of the image generate_qr has made: pyzbar returns the
\* text the image carries, json.loads parses it
DecodeQr ==
    /\ qr.stage = "img"
    /\ qr' = [qr EXCEPT !.stage = "decoded", !.decoded = json_loads(qr.img)]
    /\ UNCHANGED <<sheets, pc, call, upd, app, msgs, failedAt, wr, preWrite, raceWith,
                   clean, initialized, loop, nops, triaged, logged_in, user>>

\* the QR codec over every payload of bounded texts
InitCodec ==
    /\ InitStore({{}}, <<>>, <<>>)
    /\ \E p \in Payloads : qr = [NoQr EXCEPT !.stage = "data", !.data = p]

NextCodec == GenerateQr \/ DecodeQr

SpecCodec == InitCodec /\ [][NextCodec]_vars

\* login_screen, the "Login" button: the run reads Users, the selectbox holds
\* the account of the session, st.rerun ends the run
Login(s, ok) ==
    /\ pc[s] = "idle"
    /\ initialized[s]
    /\ ~logged_in[s]
    /\ nops < MaxOps
    /\ nops' = nops + 1
    /\ LET users    == read_sheet(sheets["Users"], ok)
           selected == session_user(s).name
           shown    == IF ok THEN {} ELSE {"ReadError"}
       IN  IF users = <<>>
           THEN /\ msgs' = [msgs EXCEPT ![s] = shown \cup {"CouldNotLoadUsers"}]
                /\ UNCHANGED <<logged_in, user>>
           ELSE /\ FirstMatch(users, "name", selected) # 0
                /\ msgs' = [msgs EXCEPT ![s] = shown]
                /\ logged_in' = [logged_in EXCEPT ![s] = TRUE]
                /\ user' = [user EXCEPT ![s] = login_user(users, selected)]
    /\ call' = [call EXCEPT ![s] = [NoCall EXCEPT !.kind = "login"]]
    /\ pc' = [pc EXCEPT ![s] = "done"]
    /\ UNCHANGED <<sheets, upd, app, failedAt, wr, preWrite, raceWith, clean,
                   initialized, loop, triaged, qr>>

\* sidebar_nav, the "Logout" button; st.rerun ends the run before main gets to
\* a page function
Logout(s) ==
    /\ pc[s] = "idle"
    /\ initialized[s]
    /\ logged_in[s]
    /\ nops < MaxOps
    /\ nops' = nops + 1
    /\ logged_in' = [logged_in EXCEPT ![s] = FALSE]
    /\ user' = [user EXCEPT ![s] = NoUser]
    /\ call' = [call EXCEPT ![s] = [NoCall EXCEPT !.kind = "logout"]]
    /\ msgs' = [msgs EXCEPT ![s] = {}]
    /\ pc' = [pc EXCEPT ![s] = "done"]
    /\ UNCHANGED <<sheets, upd, app, failedAt, wr, preWrite, raceWith, clean,
                   initialized, loop, triaged, qr>>

\* login, logout and every page action: all sessions are at the login screen,
\* or all but the visitor's are logged in
InitAuth ==
    /\ InitSheets({{"Usage_Log"}}, <<Registered[1]>>, Submitted)
    /\ InitRuns
    /\ \E L \in {{}, Sessions \ Visitors} : InitLogins(L)
    /\ qr = NoQr

\* one input for each button of the pages
PageOps(s) ==
    \/ Register(s, "Multimeter", "ITM-B", "T1")
    \/ \E action \in {"use", "return"} : ScanUse(s, "ITM-A", action, TRUE)
    \/ Submit(s, "Line 3 down", "Line 3 down", "RPT-B", "T1")
    \/ Triage(s, "RPT-A", "resolved", "Fixed fuse", "T1", TRUE)

NextAuth ==
    \E s \in Sessions :
        \/ \E ok \in BOOLEAN : Login(s, ok)
        \/ Logout(s)
        \/ PageOps(s)
        \/ InitSteps(s)
        \/ Step(s)

SpecAuth == InitAuth /\ [][NextAuth]_vars

\* the report lifecycle while a new session runs first-load initialization
InitFirstReports == InitWith(SUBSET {"Reports"}, <<>>, <<>>)

NextFirstReports == \E s \in Sessions : InitSteps(s) \/ ReportOps(s) \/ Step(s)

SpecFirstReports == InitFirstReports /\ [][NextFirstReports]_vars

\* ---------------------------------------------------------------- properties
\* the records of a worksheet as the program reads them
Records(n) == get_all_records(sheets[n])

\* the stored status of the first Items row whose item_id is id ("" when none)
StoredStatus(id) ==
    LET i == FirstMatch(Records("Items"), "item_id", id)
    IN  IF i = 0 THEN "" ELSE Records("Items")[i]["status"]

\* the rows of worksheet n that session s has appended in its current operation
\* and that the program reads as records (every row below row 1)
AppendedEntries(s, n) == {w \in wr[s] : w[1] = "row" /\ w[2] = n /\ w[3] >= 2}

\* s has written a cell of Items in its current operation
StatusWritten(s) == \E w \in wr[s] : w[1] = "cell" /\ w[2] = "Items"

AppendSteps == {"app_read", "app_hdr", "app_row"}

\* C1: when two sessions each start a check out of the same item while its stored
\* status is available, and both run to their end without a transport failure,
\* exactly one reports success, the other reports Contention, the item ends in_use
\* and exactly one CHECK OUT entry for the item is in Usage_Log.
C1_OneCheckoutWins ==
    \A s, t \in Technicians :
        ( /\ s # t
          /\ t \in raceWith[s]
          /\ pc[s] = "done" /\ pc[t] = "done"
          /\ call[s].kind = "use" /\ call[t].kind = "use"
          /\ call[s].id = call[t].id
          /\ call[s].current = "available" /\ call[t].current = "available"
          /\ failedAt[s] = "" /\ failedAt[t] = "" )
        => /\ ("success" \in msgs[s]) # ("success" \in msgs[t])
           /\ ("Contention" \in msgs[s]) # ("Contention" \in msgs[t])
           /\ StoredStatus(call[s].id) = "in_use"
           /\ Cardinality({i \in DOMAIN Records("Usage_Log") :
                             /\ RecGet(Records("Usage_Log")[i], "item_id") = call[s].id
                             /\ RecGet(Records("Usage_Log")[i], "action") = "CHECK OUT"}) = 1

\* C2: a check out reports success only if the stored status right before its
\* status write was available, and a return only if it was in_use.
C2_WriteFromExpectedStatus ==
    \A s \in Technicians :
        (pc[s] = "done" /\ "success" \in msgs[s] /\ call[s].kind \in {"use", "return"})
        => preWrite[s] = (IF call[s].kind = "use" THEN "available" ELSE "in_use")

\* C3 (outcome): a check out of an available item, or a return of an in_use item,
\* that ran with no other session acting on the item and no transport failure
\* has reported success and left the stored status in_use, respectively available.
C3_Outcome ==
    \A s \in Technicians :
        ( /\ pc[s] = "done"
          /\ clean[s]
          /\ \/ call[s].kind = "use" /\ call[s].current = "available"
             \/ call[s].kind = "return" /\ call[s].current = "in_use" )
        => /\ "success" \in msgs[s]
           /\ StoredStatus(call[s].id) = (IF call[s].kind = "use" THEN "in_use" ELSE "available")

\* C3 (frame): a step of a check out or return changes nothing of Items but the
\* status cell of the first row whose item_id is the item acted on.
C3_Frame ==
    \A s \in Technicians :
        (call[s].kind \in {"use", "return"} /\ pc[s] \in ApiSteps /\ pc'[s] # pc[s])
        => LET ws == sheets["Items"]
               i  == FirstMatch(get_all_records(ws), "item_id", call[s].id)
           IN  /\ Len(sheets'["Items"]) = Len(ws)
               /\ \A r \in DOMAIN ws : \A c \in DOMAIN ws[r] :
                     (sheets'["Items"][r][c] # ws[r][c])
                     => (r = i + 1 /\ ws[1][c] = "status")

\* C3: with no other session acting on the item and no transport failure, check out
\* of an available item succeeds and leaves it in_use, return of an in_use item
\* succeeds and leaves it available, and no other column of the row and no other
\* row of Items is changed.
C3_CheckoutReturn == []C3_Outcome /\ [][C3_Frame]_vars

\* a return has succeeded undisturbed while Items holds a second item
C3_Witness ==
    \E s \in Technicians :
        /\ pc[s] = "done" /\ clean[s] /\ "success" \in msgs[s]
        /\ call[s].kind = "return" /\ call[s].current = "in_use"
        /\ StoredStatus(call[s].id) = "available"
        /\ Len(Records("Items")) >= 2

\* C4: every check out or return that reports success has appended exactly one
\* Usage_Log entry, with its item_id, its technician and its action; and every
\* entry of Usage_Log is the entry of a check out or return (its action is
\* CHECK OUT or RETURN and its item_id is that of a row of Items).
C4_LogMatchesOperations ==
    /\ \A s \in Technicians :
          (pc[s] = "done" /\ "success" \in msgs[s] /\ call[s].kind \in {"use", "return"})
          => /\ Cardinality(AppendedEntries(s, "Usage_Log")) = 1
             /\ \A w \in AppendedEntries(s, "Usage_Log") :
                   LET e == Records("Usage_Log")[w[3] - 1]
                   IN  /\ RecGet(e, "item_id") = call[s].id
                       /\ RecGet(e, "technician") = session_user(s).name
                       /\ RecGet(e, "action") = log_action_of(call[s].kind)
    /\ \A i \in DOMAIN Records("Usage_Log") :
          LET e == Records("Usage_Log")[i]
          IN  /\ RecGet(e, "action") \in {"CHECK OUT", "RETURN"}
              /\ \E j \in DOMAIN Records("Items") :
                    RecGet(Records("Items")[j], "item_id") = RecGet(e, "item_id")

\* C5: when the status write of a check out or return succeeded and the append to
\* Usage_Log then failed, the operation ends with PartialFailure, an outcome that
\* is neither success nor the transport failure shown before any write; the status
\* keeps its new value and Usage_Log has received no row.
C5_PartialFailure ==
    \A s \in Technicians :
        ( /\ pc[s] = "done"
          /\ call[s].kind \in {"use", "return"}
          /\ StatusWritten(s)
          /\ failedAt[s] \in AppendSteps )
        => /\ msgs[s] = {"PartialFailure"}
           /\ \A w \in wr[s] : ~(w[1] = "row" /\ w[2] = "Usage_Log")

\* C6: a check out of an item_id that has no row in Items ends with NotFound, and
\* a check out of an item whose status is in_use ends with InvalidTransition; in
\* both cases no success is reported, no cell of Items is written and nothing is
\* appended to Usage_Log.
C6_RejectedCheckout ==
    \A s \in Technicians :
        (pc[s] = "done" /\ call[s].kind = "use")
        => /\ (FirstMatch(Records("Items"), "item_id", call[s].id) = 0)
              => ("NotFound" \in msgs[s] /\ "success" \notin msgs[s] /\ wr[s] = {})
           /\ (call[s].current = "in_use")
              => ("InvalidTransition" \in msgs[s] /\ "success" \notin msgs[s] /\ wr[s] = {})

\* a check out of an item that an earlier check out left in_use has been turned down
C6_Witness ==
    \E s \in Technicians :
        /\ pc[s] = "done" /\ call[s].kind = "use" /\ call[s].current = "in_use"
        /\ "InvalidTransition" \in msgs[s]
        /\ StoredStatus(call[s].id) = "in_use"


\* C7: in every reachable state, after any sequence of register, check out and
\* return operations, the status of every row of Items is one of available,
\* in_use, maintenance.
C7_ItemStatusDomain ==
    \A i \in DOMAIN Records("Items") :
        RecGet(Records("Items")[i], "status") \in {"available", "in_use", "maintenance"}

\* ws is a prefix of ws2
IsPrefix(ws, ws2) ==
    /\ Len(ws) <= Len(ws2)
    /\ \A i \in DOMAIN ws : ws2[i] = ws[i]

\* C8: Usage_Log is append-only: across every step of every operation (register,
\* check out, return, submit, triage, first-load initialization) the rows of
\* Usage_Log before the step are a prefix of its rows after the step.
C8_UsageLogAppendOnly ==
    [][IsPrefix(sheets["Usage_Log"], sheets'["Usage_Log"])]_vars

\* a check out has appended its entry below an entry that Usage_Log already held
C8_Witness ==
    \E s \in Technicians :
        /\ Len(Records("Usage_Log")) >= 2
        /\ <<"row", "Usage_Log", Len(sheets["Usage_Log"]), 0>> \in wr[s]
        /\ call[s].kind \in {"use", "return"}

\* a triage of the report with this report_id is in progress
TriageInProgress(id) ==
    \E t \in Technicians :
        pc[t] \in {"upd_read", "upd_write"} /\ call[t].kind = "triage" /\ call[t].id = id

\* C9: in every state where no triage on a report is in progress, its status,
\* assigned_to, resolution and updated_at are either all still the values written
\* at submission or all the values of one single triage call.
C9_TriageIsOneUpdate ==
    \A i \in DOMAIN Records("Reports") :
        LET r == Records("Reports")[i]
            four == <<r["status"], r["assigned_to"], r["resolution"], r["updated_at"]>>
        IN  ~TriageInProgress(r["report_id"])
            => \/ four = <<"open", "", "", "">>
               \/ \E c \in triaged :
                     c[1] = r["report_id"] /\ four = <<c[2], c[3], c[4], c[5]>>

\* C10 (outcome): a triage that has completed with no other triage on the same
\* report and no failure has reported success, and the report has the chosen
\* status, the technician's name as assigned_to, the resolution text and a
\* non-empty updated_at.
C10_Outcome ==
    \A s \in Technicians :
        (pc[s] = "done" /\ clean[s] /\ call[s].kind = "triage" /\ call[s].id # "")
        => /\ "success" \in msgs[s]
           /\ LET i == FirstMatch(Records("Reports"), "report_id", call[s].id)
                  r == Records("Reports")[i]
              IN  /\ i # 0
                  /\ r["status"] = call[s].input[1]
                  /\ r["assigned_to"] = session_user(s).name
                  /\ r["resolution"] = call[s].input[2]
                  /\ r["updated_at"] = call[s].input[3]
                  /\ r["updated_at"] # ""

\* C10 (frame): no step of a triage changes report_id, submitted_by, title,
\* description, priority or created_at of a row of Reports.
C10_Frame ==
    \A s \in Technicians :
        (call[s].kind = "triage" /\ pc[s] \in ApiSteps /\ pc'[s] # pc[s])
        => LET ws == sheets["Reports"]
           IN  /\ Len(sheets'["Reports"]) = Len(ws)
               /\ \A r \in DOMAIN ws : \A c \in DOMAIN ws[r] :
                     (ws[1][c] \in {"report_id", "submitted_by", "title", "description",
                                    "priority", "created_at"})
                     => sheets'["Reports"][r][c] = ws[r][c]

C11_Submit ==
    \A s \in Users :
        (pc[s] = "done" /\ call[s].kind = "submit")
        => IF call[s].input[1] = "" \/ call[s].input[2] = ""
           THEN msgs[s] = {"ValidationError"} /\ wr[s] = {}
           ELSE "success" \in msgs[s]
                => /\ Cardinality(AppendedEntries(s, "Reports")) = 1
                   /\ \A w \in AppendedEntries(s, "Reports") :
                         LET r == Records("Reports")[w[3] - 1]
                         IN  (\A c \in triaged : c[1] # call[s].id)
                             =>
                             /\ RecGet(r, "report_id") = call[s].id
                             /\ RecGet(r, "status") = "open"
                             /\ RecGet(r, "assigned_to") = ""
                             /\ RecGet(r, "resolution") = ""
                             /\ RecGet(r, "updated_at") = ""
                             /\ RecGet(r, "created_at") # ""

\* C12: a keyed update (a triage, or the status write of a check out or return)
\* whose key matches no row writes no cell and ends with NotFound: the calling
\* operation does not report success and appends nothing to Usage_Log.
C12_KeyedUpdateNotFound ==
    \A s \in Technicians :
        ( /\ pc[s] = "done"
          /\ call[s].kind \in {"use", "return", "triage"}
          /\ "NotFound" \in msgs[s] )
        => /\ "success" \notin msgs[s]
           /\ wr[s] = {}

\* the value a dict holds for a key
DictGet(d, k) == (CHOOSE kv \in Range(d) : kv[1] = k)[2]

\* C13 (outcome): a registration with an empty name ends with ValidationError and
\* has appended nothing; one with a non-empty name that reports success has
\* appended exactly one Items row, whose item_id, name and category are those of
\* the identifier payload and whose registered_by is the acting technician.
C13_Outcome ==
    \A s \in Technicians :
        (pc[s] = "done" /\ call[s].kind = "register")
        => IF call[s].name = ""
           THEN msgs[s] = {"ValidationError"} /\ wr[s] = {}
           ELSE "success" \in msgs[s]
                => /\ Cardinality(AppendedEntries(s, "Items")) = 1
                   /\ \A w \in AppendedEntries(s, "Items") :
                         LET r == Records("Items")[w[3] - 1]
                             p == qr_data(call[s].id, call[s].name)
                         IN  /\ RecGet(r, "item_id") = DictGet(p, "item_id")
                             /\ RecGet(r, "name") = DictGet(p, "name")
                             /\ RecGet(r, "category") = DictGet(p, "category")
                             /\ RecGet(r, "registered_by") = session_user(s).name

\* C13 (status): the row a registration appends has status available.
C13_Append ==
    \A s \in Technicians :
        (call[s].kind = "register" /\ pc[s] = "app_row" /\ "success" \in msgs'[s])
        => /\ Len(sheets'["Items"]) = Len(sheets["Items"]) + 1
           /\ LET ws == sheets'["Items"]
              IN  ws[Len(ws)][ColNum(sheets_headers["Items"], "status")] = "available"

\* C13: registerItem with an empty name fails with ValidationError and appends
\* nothing to Items; with a non-empty name it appends exactly one Items row with
\* status available and registered_by the acting technician, and the identifier
\* payload carries the item_id, name and category of that row.
C13_Register == []C13_Outcome /\ [][C13_Append]_vars

\* no two records of worksheet n have the same value in column id_col
UniqueKey(n, id_col) ==
    \A i, j \in DOMAIN Records(n) :
        RecGet(Records(n)[i], id_col) = RecGet(Records(n)[j], id_col) => i = j

\* C14: in every reachable state no two rows of Items have the same item_id and
\* no two rows of Reports the same report_id, the identifiers being drawn from a
\* finite space without consulting the existing rows.
C14_UniqueIds == UniqueKey("Items", "item_id") /\ UniqueKey("Reports", "report_id")

\* C15: for every worksheet and every interleaving of sessions that initialize
\* headers or append rows while it is empty, a non-empty worksheet has the header
\* as its first row and no later row equal to the header.
C15_HeaderOnce ==
    \A n \in SheetNames :
        sheets[n] # <<>>
        => /\ sheets[n][1] = sheets_headers[n]
           /\ \A i \in 2..Len(sheets[n]) : sheets[n][i] # sheets_headers[n]

\* C16: when the read of Items fails during a check out or return (read_sheet
\* has shown its "Error reading"), the operation ends with TransportError and
\* not with NotFound or InvalidTransition, and it performs no write.
C16_FailedReadIsTransportError ==
    \A s \in Technicians :
        (pc[s] = "done" /\ call[s].kind \in {"use", "return"} /\ "ReadError" \in msgs[s])
        => /\ "TransportError" \in msgs[s]
           /\ "NotFound" \notin msgs[s]
           /\ "InvalidTransition" \notin msgs[s]
           /\ wr[s] = {}

\* the positions at which the next API call of a run is a read
ReadSteps == {"idle", "ih_read", "su_read", "app_read", "upd_read"}

\* C17 (idempotence): two reads of a worksheet with no write in between return
\* the same sequence of records, whether or not one of them meets a failure.
C17_SameRecords ==
    \A n \in SheetNames : \A ok1, ok2 \in BOOLEAN :
        read_sheet(sheets[n], ok1) = read_sheet(sheets[n], ok2)

\* C17 (frame): a step that reads leaves every worksheet as it was.
C17_ReadChangesNothing ==
    \A s \in Sessions :
        (pc[s] \in ReadSteps /\ pc'[s] # pc[s]) => sheets' = sheets

\* C17: reading a table never changes any table, and two reads of the same table
\* with no write to it in between return the identical sequence of records,
\* including when one of the reads meets a transport failure.
C17_ReadsIdempotent == []C17_SameRecords /\ [][C17_ReadChangesNothing]_vars

\* C18: round trip of the identifier codec: for every payload p = {item_id, name,
\* category} over the bounded texts, what decode_qr_from_upload returns for the
\* image generate_qr made of p is a dict equal to p.
C18_RoundTrip ==
    qr.stage = "decoded"
    => /\ qr.decoded.ok
       /\ Range(qr.decoded.val) = Range(qr.data)
       /\ Len(qr.decoded.val) = Len(qr.data)

\* a payload whose name is a quote followed by a backslash, and whose item_id
\* holds the non-ASCII character, has been encoded and decoded
C18_Witness ==
    /\ qr.stage = "decoded"
    /\ DictGet(qr.data, KeyName) = <<"\"", "\\">>
    /\ DictGet(qr.data, KeyItemId) = <<"U+00E9", "a">>
    /\ DictGet(qr.decoded.val, KeyName) = <<"\"", "\\">>

\* ---------------------------------------------------------------- maintenance
\* the item whose status was set to maintenance in the spreadsheet
MaintItem == "ITM-A"

\* the Items rows: ITM-A in maintenance, ITM-B available
MaintenanceRows ==
    << Values([item_row("s1", MaintItem, "Multimeter", "T1")
                  EXCEPT ![5] = <<"status", "maintenance">>]),
       Registered[2] >>

\* check out and return while one item is in maintenance
InitMaintenance == InitWith(SUBSET {"Usage_Log"}, MaintenanceRows, <<>>)

SpecMaintenance == InitMaintenance /\ [][Next]_vars

\* C19: an item whose stored status is maintenance cannot be checked out or
\* returned: while nothing but check out and return acts, every check out and
\* every return attempted on it stops with an error and without the success
\* message and never reaches update_cell_by_id or append_row, its stored status
\* stays maintenance, and Usage_Log holds no entry for it.
C19_MaintenanceExcludes ==
    /\ StoredStatus(MaintItem) = "maintenance"
    /\ FirstMatch(Records("Usage_Log"), "item_id", MaintItem) = 0
    /\ \A s \in Sessions :
          call[s].kind \in {"use", "return"} /\ call[s].id = MaintItem
          => /\ pc[s] = "done"
             /\ "success" \notin msgs[s]
             /\ msgs[s] \cap {"InvalidTransition", "NotFound"} # {}
             /\ wr[s] = {}

\* a check out and a return of the item in maintenance have both been refused
\* with "InvalidTransition" after a read of Items that went through
C19_Witness ==
    /\ StoredStatus(MaintItem) = "maintenance"
    /\ \E s, t \in Sessions :
          /\ call[s].kind = "use" /\ call[s].id = MaintItem /\ pc[s] = "done"
          /\ call[s].current = "maintenance" /\ "InvalidTransition" \in msgs[s]
          /\ call[t].kind = "return" /\ call[t].id = MaintItem /\ pc[t] = "done"
          /\ call[t].current = "maintenance" /\ "InvalidTransition" \in msgs[t]

\* ---------------------------------------------------------------- audit trail
\* the actions of the Usage_Log entries of item id, in the order of the worksheet
ActionsOf(id) ==
    LET es == SelectSeq(Records("Usage_Log"), LAMBDA e : RecGet(e, "item_id") = id)
    IN  [i \in DOMAIN es |-> RecGet(es[i], "action")]

\* no check out and no return is between its start and its end
NoUseInProgress ==
    \A s \in Sessions : call[s].kind \in {"use", "return"} => pc[s] = "done"

\* C20: in every state where no check out or return is in progress, for each item
\* of Items (none is ever in maintenance here) the Usage_Log entries of the item
\* alternate CHECK OUT, RETURN, CHECK OUT, ... starting with CHECK OUT, and the
\* stored status is in_use when the last of them is CHECK OUT and available when
\* there is none or the last is RETURN.
C20_StatusAgreesWithLog ==
    NoUseInProgress
    => \A id \in ItemIds :
          FirstMatch(Records("Items"), "item_id", id) # 0
          => LET a == ActionsOf(id)
             IN  /\ \A i \in DOMAIN a :
                       a[i] = (IF i % 2 = 1 THEN "CHECK OUT" ELSE "RETURN")
                 /\ StoredStatus(id) =
                       (IF Len(a) > 0 /\ a[Len(a)] = "CHECK OUT"
                        THEN "in_use" ELSE "available")

\* ---------------------------------------------------------------- resolved reports
\* the stored value of column col of the first Reports row whose report_id is id
\* ("" when there is none)
ReportField(id, col) ==
    LET i == FirstMatch(Records("Reports"), "report_id", id)
    IN  IF i = 0 THEN "" ELSE RecGet(Records("Reports")[i], col)

\* the step is a cell write of the triage of s that itself moved report id from
\* open or in_progress to resolved and is writing its remaining columns
ResolvingWrite(s, id) ==
    /\ pc[s] = "upd_write" /\ upd'[s] # upd[s]
    /\ call[s].kind = "triage" /\ call[s].id = id
    /\ call[s].input[1] = "resolved"
    /\ preWrite[s] \in {"open", "in_progress"}

\* C21: once the stored status of a report is resolved, no later triage of any
\* session changes its status, assigned_to, resolution or updated_at (only the
\* triage that resolved it completes its own update); this includes the update of
\* a session that selected the report before another session resolved it.
C21_ResolvedIsFinal ==
    [][\A id \in ReportIds :
          ( /\ ReportField(id, "status") = "resolved"
            /\ \E col \in {"status", "assigned_to", "resolution", "updated_at"} :
                  ReportField(id, col)' # ReportField(id, col) )
          => \E s \in Sessions : ResolvingWrite(s, id)]_vars

\* ---------------------------------------------------------------- keyed update
\* worksheet ws without its column name
DropCol(ws, name) ==
    LET j == ColNum(ws[1], name)
    IN  [r \in DOMAIN ws |->
           [c \in 1..(Len(ws[r]) - 1) |-> IF c < j THEN ws[r][c] ELSE ws[r][c + 1]]]

\* Items and Reports in which an id occurs in two rows (uuid4()[:8] can repeat)
DupItems ==
    <<sheets_headers["Items"]>> \o Registered
        \o << Values(item_row("s2", "ITM-A", "Multimeter", "T1")) >>

DupReports ==
    <<sheets_headers["Reports"]>> \o Submitted
        \o << Values(report_row("s3", "RPT-B", "Line 3 down", "Line 3 down", "T1")),
              Values(report_row("s3", "RPT-A", "Line 3 down", "Line 3 down", "T1")) >>

\* update_cell_by_id over worksheets with repeated ids; the Reports worksheet is
\* either the one init_sheet_headers makes or one that was set up by hand
\* without the column assigned_to (init_sheet_headers leaves a worksheet that
\* has rows as it is)
InitUpdate ==
    /\ \E reports \in {DupReports, DropCol(DupReports, "assigned_to")},
          log \in {<<>>, <<sheets_headers["Usage_Log"]>>} :
          sheets = [n \in SheetNames |->
                      IF n = "Items" THEN DupItems
                      ELSE IF n = "Reports" THEN reports
                      ELSE IF n = "Usage_Log" THEN log
                      ELSE <<sheets_headers[n]>> \o InitRows(n, <<>>, <<>>)]
    /\ InitSessions
    /\ qr = NoQr

\* check out and return of the repeated item, triage of the reports to resolved,
\* each after a page read that went through
NextUpdate ==
    \E s \in Sessions :
        \/ \E action \in {"use", "return"} : ScanUse(s, "ITM-A", action, TRUE)
        \/ \E sel_id \in ReportIds, resolution \in Resolutions, ts \in Times :
              Triage(s, sel_id, "resolved", resolution, ts, TRUE)
        \/ Step(s)

SpecUpdate == InitUpdate /\ [][NextUpdate]_vars

\* the columns named in the update_dict of the operation of s
UpdColumns(s) ==
    IF call[s].kind = "triage" THEN Range(Keys(triage_dict(s, "", "", "")))
    ELSE {"status"}

\* row r of worksheet ws is the first row below the header whose column id_col
\* holds id_val
IsFirstKeyed(ws, r, id_col, id_val) ==
    LET k == ColNum(ws[1], id_col)
    IN  /\ r >= 2
        /\ ws[r][k] = id_val
        /\ \A q \in 2..(r - 1) : ws[q][k] # id_val

\* every step of update_cell_by_id leaves every other worksheet, the number of
\* rows and of cells, every other row and every column it was not given as it was
C22_Frame ==
    \A s \in Sessions :
        (pc[s] \in {"upd_read", "upd_write"} /\ (pc'[s] # pc[s] \/ upd'[s] # upd[s]))
        => LET n   == upd[s].sheet
               ws  == sheets[n]
               ws2 == sheets'[n]
           IN  /\ \A m \in SheetNames \ {n} : sheets'[m] = sheets[m]
               /\ Len(ws2) = Len(ws)
               /\ \A r \in DOMAIN ws :
                     /\ Len(ws2[r]) = Len(ws[r])
                     /\ \A c \in DOMAIN ws[r] :
                           ws2[r][c] # ws[r][c]
                           => /\ IsFirstKeyed(ws, r, upd[s].id_col, upd[s].id_val)
                              /\ ws[1][c] \in UpdColumns(s)

\* a triage that found its row has written one cell for each column of its
\* update_dict that the header has, and none for a column the header lacks
C22_Skipped ==
    \A s \in Sessions :
        ( /\ pc[s] = "done" /\ call[s].kind = "triage"
          /\ "success" \in msgs[s] /\ "NotFound" \notin msgs[s] )
        => LET ws == sheets["Reports"]
           IN  /\ {ws[1][w[4]] : w \in wr[s]} = UpdColumns(s) \cap Range(ws[1])
               /\ Cardinality(wr[s]) = Cardinality(UpdColumns(s) \cap Range(ws[1]))

\* C22: a keyed update changes only the cells of the named columns in the first
\* row (in storage order) whose key column equals the key value; every other
\* row, every column not named and every other worksheet stay as they were, and
\* an update column that the header does not have is skipped without a write.
C22_KeyedUpdateFrame == []C22_Skipped /\ [][C22_Frame]_vars

\* a triage of RPT-A has resolved the first of the two RPT-A rows on a Reports
\* worksheet without the column assigned_to; the second RPT-A row is still open
C22_Witness ==
    \E s \in Sessions :
        /\ pc[s] = "done" /\ call[s].kind = "triage" /\ call[s].id = "RPT-A"
        /\ "success" \in msgs[s] /\ "NotFound" \notin msgs[s]
        /\ "assigned_to" \notin Range(sheets["Reports"][1])
        /\ Cardinality(wr[s]) = 3
        /\ LET st == ColNum(sheets["Reports"][1], "status")
           IN  /\ sheets["Reports"][2][st] = "resolved"
               /\ sheets["Reports"][4][st] = "open"
               /\ sheets["Reports"][4][1] = "RPT-A"

\* ---------------------------------------------------------------- demo users
\* C23: whatever sessions have run first-load initialization, in any
\* interleaving and also when the read of Users failed, Users holds each demo
\* user_id (U001..U004) in at most one row: seed_users does not append the demo
\* users to a worksheet that already has user rows.
C23_UsersSeededOnce ==
    \A j \in DOMAIN demo_users :
        Cardinality({i \in DOMAIN Records("Users") :
                        RecGet(Records("Users")[i], "user_id") = demo_users[j][1][2]}) <= 1

\* ---------------------------------------------------------------- authorization
\* logged_in is true exactly when a user record is set; a registration, check
\* out, return or triage runs in a session whose user has the role technician,
\* a submission in a session whose user has another role
C24_Roles ==
    \A s \in Sessions :
        /\ logged_in[s] <=> user[s] # NoUser
        /\ call[s].kind \in {"register", "use", "return", "triage"}
           => logged_in[s] /\ user[s].role = "technician"
        /\ call[s].kind = "submit"
           => logged_in[s] /\ user[s].role # "technician"

\* the run of session s takes a step
RunSteps(s) ==
    \/ pc'[s] # pc[s]
    \/ upd'[s] # upd[s]
    \/ app'[s] # app[s]
    \/ loop'[s] # loop[s]
    \/ wr'[s] # wr[s]

\* a step that writes to the spreadsheet is a step of a session that is logged
\* in, or a step of first-load initialization
C24_Writes ==
    \A s \in Sessions :
        (sheets' # sheets /\ RunSteps(s)) => (logged_in[s] \/ call[s].kind = "init")

\* C24: in every session, across login, logout and page actions: logged_in is
\* true exactly when a user record is set; no session that is not logged in
\* writes to the store, first-load initialization apart; registerItem, checkout,
\* return and triage are performed only by a session whose user has the role
\* technician, and submit only by a session whose user has not.
C24_Authorization == []C24_Roles /\ [][C24_Writes]_vars

\* a plain user has submitted a report after a technician has logged out
C24_Witness ==
    \E s \in Sessions, v \in Sessions :
        /\ call[s].kind = "submit" /\ pc[s] = "done" /\ "success" \in msgs[s]
        /\ logged_in[s] /\ user[s].role = "user"
        /\ call[v].kind = "logout" /\ ~logged_in[v] /\ user[v] = NoUser
        /\ session_user(v).role = "technician"

====
